---------------------------- MODULE Spec2Model ----------------------------
(***************************************************************************)
(* A model of the FF1 format-preserving encryption engine of src/src/ff1.rs *)
(* (radix classifier, CBC-MAC PRF, S-expander, Feistel driver).            *)
(*                                                                         *)
(* Bytes are integers in 0..255, a 16-byte block is a sequence of length   *)
(* 16, a numeral string is a sequence of numerals (most significant        *)
(* first).  Machine integers wider than TLC's are kept in 16-bit limbs.    *)
(***************************************************************************)
EXTENDS Integers, Sequences, FiniteSets, TLC

VARIABLES
    engine,   \* the FF1 struct: ciph, radix, faistel_rounds (or kind "None")
    pc,       \* position of the caller: "idle", "enc", "dec"
    call,     \* locals of the running encrypt/decrypt call
    result,   \* the last finished call: its arguments and its Result
    arg,      \* argument of a pure function under check
    ret       \* its return value / running state

vars == <<engine, pc, call, result, arg, ret>>

----------------------------------------------------------------------------
(* Bounds of the model *)

\* from_u32 is applied to every u32 in 0..MaxRadixArg (and to larger powers of two)
MaxRadixArg == 65540
\* the block cipher is keyed with one of NumKeys keys
NumKeys == 2
\* the PRF absorbs up to MaxBlocks 16-byte blocks, cut into calls in every way
MaxBlocks == 3
\* number of distinct byte patterns used as PRF data and as R
NumData == 2
\* generate_s is applied for every b in 0..MaxSB
MaxSB == 30
\* calculate_b is applied for every radix in 2..MaxBRadix (and some larger
\* ones) and every v in 0..MaxV with radix^v < 2^31
MaxBRadix == 300
MaxV == 31
\* new_with_faistel_rounds is called with every round count in 0..MaxRounds
MaxRounds == 3
\* numeral strings have min_len - 1 .. min_len + MaxExtraLen numerals
MaxExtraLen == 1
\* number of patterned numeral strings per radix and length
NumSamples == 2
\* tweak lengths 0..MaxTweakLen of the alignment specification
MaxTweakLen == 33

----------------------------------------------------------------------------
(* Constants of src/src/ff1.rs *)

MIN_NS_LEN == 2
MIN_NS_DOMAIN_SIZE == 1000000
MIN_RADIX_2_NS_LEN == 20
\* 1 << 16, the largest radix
MAX_RADIX == 65536
\* the PRF block size, self.buf[0].len()
BLOCK_LEN == 16

----------------------------------------------------------------------------
(* Integer helpers *)

Max(a, b) == IF a >= b THEN a ELSE b
Min(a, b) == IF a <= b THEN a ELSE b

RECURSIVE Pow(_, _)
Pow(x, e) == IF e = 0 THEN 1 ELSE x * Pow(x, e - 1)

\* u32::count_ones
RECURSIVE CountOnes(_)
CountOnes(x) == IF x = 0 THEN 0 ELSE (x % 2) + CountOnes(x \div 2)

\* number of significant bits of x
RECURSIVE BitLen(_)
BitLen(x) == IF x = 0 THEN 0 ELSE 1 + BitLen(x \div 2)

\* u32::leading_zeros
LeadingZeros(x) == 32 - BitLen(x)

----------------------------------------------------------------------------
(* u64 values as two limbs: value = hi * 65536 + lo, 0 <= lo < 65536 *)

U64From(x) == [hi |-> x \div 65536, lo |-> x % 65536]

\* a < c for a u64 a and a constant c < 2^31
U64Less(a, c) == IF a.hi >= 32768 THEN FALSE ELSE a.hi * 65536 + a.lo < c

\* a * r for a u64 a < 2^20 and r <= 2^16 (the only products the loop forms)
U64Mul(a, r) ==
    LET rh == r \div 256
        rl == r % 256
        t1 == a.lo * rh
        low == (t1 % 256) * 256 + a.lo * rl
    IN  [hi |-> a.hi * r + (t1 \div 256) + (low \div 65536), lo |-> low % 65536]

----------------------------------------------------------------------------
(* Radix *)

\* the while loop of the Any branch: returns the final min_len and domain
RECURSIVE MinLenLoop(_, _, _)
MinLenLoop(radix, domain, min_len) ==
    IF U64Less(domain, MIN_NS_DOMAIN_SIZE)
    THEN MinLenLoop(radix, U64Mul(domain, radix), min_len + 1)
    ELSE [min_len |-> min_len, domain |-> domain]

\* a range check that leaves out the upper end (2..(1 << 16))
RadixInRangeExclusive(radix) == 2 <= radix /\ radix < MAX_RADIX

\* the range check of from_u32: (2..=(1 << 16)).contains(&radix)
RadixInRange(radix) == 2 <= radix /\ radix <= MAX_RADIX

\* a min_len that rounds MIN_RADIX_2_NS_LEN / log_radix down
PowerTwoMinLenFloor(log_radix) ==
    Max(MIN_RADIX_2_NS_LEN \div log_radix, MIN_NS_LEN)

\* min_len of the PowerTwo branch
PowerTwoMinLen(log_radix) ==
    Max((MIN_RADIX_2_NS_LEN + log_radix - 1) \div log_radix, MIN_NS_LEN)

FromU32(radix) ==
    IF ~RadixInRange(radix)
    THEN [kind |-> "InvalidRadix", radix |-> radix]
    ELSE IF CountOnes(radix) = 1
         THEN LET log_radix == 31 - LeadingZeros(radix)
              IN  [kind |-> "PowerTwo", radix |-> radix,
                   min_len |-> PowerTwoMinLen(log_radix),
                   log_radix |-> log_radix]
         ELSE [kind |-> "Any", radix |-> radix,
               min_len |-> MinLenLoop(radix, U64From(radix), 1).min_len]

ToU32(rx) == rx.radix

\* ceil(v as f64 * log2(radix) / 8.0) in real arithmetic, from
\* floor(log2(radix^v)) and whether radix^v is a power of two.  For
\* radix^v < 2^31 the f64 value is within 2^-48 of the real one, which is
\* either an integer (v = 0) or at least 2^-35 away from one, so the f64
\* ceil is the real ceil.
CeilLog2Div8(radix, v) ==
    LET p == Pow(radix, v)
        fl == BitLen(p) - 1
        exact == (p = Pow(2, fl))
    IN  IF exact /\ fl % 8 = 0 THEN fl \div 8 ELSE (fl \div 8) + 1

\* a calculate_b whose PowerTwo branch rounds down
CalculateBFloor(rx, v) ==
    IF rx.kind = "Any"
    THEN CeilLog2Div8(rx.radix, v)
    ELSE (v * rx.log_radix) \div 8

CalculateB(rx, v) ==
    IF rx.kind = "Any"
    THEN CeilLog2Div8(rx.radix, v)
    ELSE ((v * rx.log_radix) + 7) \div 8

----------------------------------------------------------------------------
(* Specification of the radix classifier as a pure function *)

RadixArgs == (0..MaxRadixArg) \cup {Pow(2, k) : k \in 17..30}

NoEngine == [kind |-> "None"]
NoCall == [kind |-> "None"]
NoResult == [kind |-> "None"]
Pending == [kind |-> "Pending"]

EngineIdle ==
    /\ engine = NoEngine
    /\ pc = "idle"
    /\ call = NoCall
    /\ result = NoResult

InitRadix ==
    /\ EngineIdle
    /\ arg \in [fn : {"from_u32"}, radix : RadixArgs]
    /\ ret = Pending

CallFromU32 ==
    /\ arg.fn = "from_u32"
    /\ ret = Pending
    /\ ret' = FromU32(arg.radix)
    /\ UNCHANGED <<engine, pc, call, result, arg>>

NextRadix == CallFromU32

SpecRadix == InitRadix /\ [][NextRadix]_vars

\* r^e >= t, without forming r^e
RECURSIVE PowGE(_, _, _)
PowGE(r, e, t) ==
    IF t <= 1 THEN TRUE
    ELSE IF e = 0 THEN FALSE
    ELSE PowGE(r, e - 1, (t + r - 1) \div r)

\* C5: from_u32(r) is Err(InvalidRadix(r)) exactly when r is outside
\* [2, 65536]; otherwise it is PowerTwo iff r is a power of two, with
\* log_radix in 1..16 and r = 2^log_radix, and Any for every other r; the
\* stored radix is r in both variants.
C5_RadixConstruction ==
    ret.kind # "Pending" =>
        LET r == arg.radix
            pow2 == \E k \in 1..16 : r = Pow(2, k)
        IN  /\ ret.kind \in {"InvalidRadix", "PowerTwo", "Any"}
            /\ ret.radix = r
            /\ (ret.kind = "InvalidRadix") <=> (r < 2 \/ r > 65536)
            /\ (ret.kind = "PowerTwo") <=> (2 <= r /\ r <= 65536 /\ pow2)
            /\ ret.kind = "PowerTwo" =>
                    /\ ret.log_radix \in 1..16
                    /\ r = Pow(2, ret.log_radix)

\* the largest radix has been classified
C5_Witness ==
    /\ arg.radix = 65536
    /\ ret.kind = "PowerTwo"
    /\ ret.log_radix = 16

\* C6: in both variants min_len is the smallest length L with
\* radix^L >= 10^6, it is at least 2, and the 64-bit domain product of the
\* Any loop stays below 2^46 (so it never overflows).
C6_MinLen ==
    ret.kind \in {"PowerTwo", "Any"} =>
        /\ ret.min_len >= 2
        /\ PowGE(arg.radix, ret.min_len, 1000000)
        /\ ~PowGE(arg.radix, ret.min_len - 1, 1000000)
        /\ ret.kind = "Any" =>
                MinLenLoop(arg.radix, U64From(arg.radix), 1).domain.hi
                    < 1073741824

\* the largest Any radix: its domain product 65535^2 needs more than 32 bits
C6_Witness ==
    /\ arg.radix = 65535
    /\ ret.kind = "Any"
    /\ ret.min_len = 2
    /\ MinLenLoop(65535, U64From(65535), 1).domain = [hi |-> 65534, lo |-> 1]

----------------------------------------------------------------------------
(* Bytes and blocks *)

RECURSIVE XorByte(_, _)
XorByte(a, b) ==
    IF a = 0 /\ b = 0 THEN 0
    ELSE ((a + b) % 2) + 2 * XorByte(a \div 2, b \div 2)

\* the first n values of f, as a sequence
Bytes(f, n) == SubSeq(f, 1, n)

XorBlock(x, y) ==
    Bytes([i \in 1..BLOCK_LEN |-> XorByte(x[i], y[i])], BLOCK_LEN)

ZeroBlock == Bytes([i \in 1..BLOCK_LEN |-> 0], BLOCK_LEN)

\* the len low-order bytes of x, most significant first (to_be_bytes)
RECURSIVE ToBe(_, _)
ToBe(x, len) ==
    IF len = 0 THEN <<>> ELSE Append(ToBe(x \div 256, len - 1), x % 256)

RECURSIVE WeightedSum(_)
WeightedSum(s) ==
    IF s = <<>> THEN 0
    ELSE (Len(s) * s[Len(s)] + WeightedSum(SubSeq(s, 1, Len(s) - 1))) % 256

\* The block cipher CIPH is a parameter of the engine (an opaque keyed
\* permutation of 16-byte blocks).  It is instantiated by a two-round
\* Feistel permutation over the two 8-byte halves of the block.
EncryptBlock(ciph, block) ==
    LET l == SubSeq(block, 1, 8)
        r == SubSeq(block, 9, 16)
        f1 == (WeightedSum(r) + 7 * ciph.key) % 256
        l1 == Bytes([i \in 1..8 |-> (l[i] + (f1 + 1) * (2 * i + 1)) % 256], 8)
        f2 == (WeightedSum(l1) + 3 * ciph.key + 1) % 256
        r1 == Bytes([i \in 1..8 |-> (r[i] + (f2 + 1) * (2 * i + 3)) % 256], 8)
    IN  r1 \o l1

Keys == 1..NumKeys

\* CIPH::new(key)
CiphNew(key) == [key |-> key]

----------------------------------------------------------------------------
(* Prf: CBC encryptor state (ciph, iv), buf, offset *)

PrfNew(ciph) ==
    [ciph |-> ciph, iv |-> ZeroBlock, buf |-> ZeroBlock, offset |-> 0]

\* cbc::Encryptor::encrypt_blocks_mut on the one-block buffer
CbcEncryptBlock(prf, buf) ==
    LET c == EncryptBlock(prf.ciph, XorBlock(buf, prf.iv))
    IN  [prf EXCEPT !.iv = c, !.buf = c, !.offset = 0]

\* one iteration that copies the data to the start of the buffer
PrfAbsorbAtStart(prf, data, to_read) ==
    LET buf == Bytes([i \in 1..BLOCK_LEN |->
                          IF i <= to_read THEN data[i] ELSE prf.buf[i]],
                     BLOCK_LEN)
        offset == prf.offset + to_read
    IN  IF offset = BLOCK_LEN
        THEN CbcEncryptBlock(prf, buf)
        ELSE [prf EXCEPT !.buf = buf, !.offset = offset]

\* one iteration of the loop of update: copy to_read bytes at offset,
\* encrypt the buffer when it is full
PrfAbsorb(prf, data, to_read) ==
    LET buf == Bytes([i \in 1..BLOCK_LEN |->
                          IF i > prf.offset /\ i <= prf.offset + to_read
                          THEN data[i - prf.offset] ELSE prf.buf[i]],
                     BLOCK_LEN)
        offset == prf.offset + to_read
    IN  IF offset = BLOCK_LEN
        THEN CbcEncryptBlock(prf, buf)
        ELSE [prf EXCEPT !.buf = buf, !.offset = offset]

RECURSIVE PrfUpdate(_, _)
PrfUpdate(prf, data) ==
    IF data = <<>> THEN prf
    ELSE LET to_read == Min(BLOCK_LEN - prf.offset, Len(data))
         IN  PrfUpdate(PrfAbsorb(prf, data, to_read),
                       SubSeq(data, to_read + 1, Len(data)))

\* output: assert_eq!(self.offset, 0); &self.buf[0]
PrfOutput(prf) ==
    IF prf.offset = 0
    THEN [kind |-> "Ok", block |-> prf.buf]
    ELSE [kind |-> "Panic", offset |-> prf.offset]

----------------------------------------------------------------------------
(* generate_s *)

\* a counter block with j in little-endian byte order
SCounterLe(j) ==
    Bytes([i \in 1..BLOCK_LEN |-> IF i = 1 THEN j % 256 ELSE 0], BLOCK_LEN)

\* j.to_be_bytes() of the u128 counter j
SCounter(j) == ToBe(j, BLOCK_LEN)

\* the blocks E(r xor j) for j in from..(to - 1), concatenated
RECURSIVE SBlocks(_, _, _, _)
SBlocks(ciph, r, from, to) ==
    IF from >= to THEN <<>>
    ELSE EncryptBlock(ciph, XorBlock(r, SCounter(from)))
             \o SBlocks(ciph, r, from + 1, to)

\* take(d)
Take(s, d) == SubSeq(s, 1, Min(d, Len(s)))

\* the bytes of the iterator and the number of blocks it encrypts
GenerateS(ciph, r, d) ==
    LET to == (d + 15) \div 16
    IN  [s |-> Take(r \o SBlocks(ciph, r, 1, to), d),
         encryptions |-> Max(to - 1, 0)]

\* d = 4 * ((b + 3) / 4) + 4
CalcD(b) == 4 * ((b + 3) \div 4) + 4

----------------------------------------------------------------------------
(* Specification of the PRF under every chunking of its input *)

\* a byte pattern of the given length
Pattern(seed, len) ==
    Bytes([i \in 1..len |-> (seed * 37 + i * i * 11 + i * 101) % 256], len)

InitPrf ==
    /\ EngineIdle
    /\ arg \in [fn : {"prf"}, key : Keys,
                data : {Pattern(sd, BLOCK_LEN * k) :
                            sd \in 1..NumData, k \in 1..MaxBlocks}]
    /\ ret = [kind |-> "Prf", prf |-> PrfNew(CiphNew(arg.key)), pos |-> 0]

\* one call of update with the next c bytes of the data (c may be 0)
CallPrfUpdate ==
    /\ arg.fn = "prf"
    /\ \E c \in 0..(Len(arg.data) - ret.pos) :
           ret' = [ret EXCEPT
                     !.prf = PrfUpdate(ret.prf,
                                 SubSeq(arg.data, ret.pos + 1, ret.pos + c)),
                     !.pos = ret.pos + c]
    /\ UNCHANGED <<engine, pc, call, result, arg>>

NextPrf == CallPrfUpdate

SpecPrf == InitPrf /\ [][NextPrf]_vars

\* Y_k of CBC-MAC with zero IV over the first k blocks of data
RECURSIVE CbcMac(_, _, _)
CbcMac(ciph, data, k) ==
    IF k = 0 THEN ZeroBlock
    ELSE EncryptBlock(ciph,
             XorBlock(CbcMac(ciph, data, k - 1),
                      SubSeq(data, BLOCK_LEN * (k - 1) + 1, BLOCK_LEN * k)))

\* C9: however the data is cut into update calls, the chaining value is the
\* CBC-MAC (zero IV) of the full blocks absorbed so far, the bytes of a
\* partial block are only buffered, and once exactly k >= 1 blocks are
\* absorbed offset is 0 and output() is Y_k.
C9_PrfIsCbcMac ==
    LET full == ret.pos \div 16
        ciph == CiphNew(arg.key)
    IN  /\ ret.prf.offset = ret.pos % 16
        /\ ret.prf.iv = CbcMac(ciph, arg.data, full)
        /\ \A i \in 1..ret.prf.offset :
               ret.prf.buf[i] = arg.data[16 * full + i]
        /\ (ret.pos = Len(arg.data)) =>
               /\ ret.prf.offset = 0
               /\ PrfOutput(ret.prf) =
                      [kind |-> "Ok", block |-> CbcMac(ciph, arg.data, full)]

\* three blocks have been absorbed
C9_Witness ==
    /\ Len(arg.data) = 48
    /\ ret.pos = 48
    /\ ret.prf.offset = 0
    /\ ret.prf.buf # ZeroBlock

----------------------------------------------------------------------------
(* Specification of the S-expander as a pure function *)

InitS ==
    /\ EngineIdle
    /\ arg \in [fn : {"generate_s"}, key : Keys,
                r : {Pattern(sd, BLOCK_LEN) : sd \in 1..NumData},
                b : 0..MaxSB]
    /\ ret = Pending

CallGenerateS ==
    /\ arg.fn = "generate_s"
    /\ ret = Pending
    /\ LET d == CalcD(arg.b)
           g == GenerateS(CiphNew(arg.key), arg.r, d)
       IN  ret' = [kind |-> "S", d |-> d, s |-> g.s,
                   encryptions |-> g.encryptions]
    /\ UNCHANGED <<engine, pc, call, result, arg>>

NextS == CallGenerateS

SpecS == InitS /\ [][NextS]_vars

\* byte k of R || E(R xor [1]) || E(R xor [2]) || ..., j xor-ed big-endian
SRefByte(ciph, r, k) ==
    LET j == (k - 1) \div 16
        off == ((k - 1) % 16) + 1
    IN  IF j = 0 THEN r[off]
        ELSE EncryptBlock(ciph,
                 Bytes([i \in 1..16 |->
                            IF i = 16 THEN XorByte(r[i], j) ELSE r[i]], 16))[off]

\* C10: with d = 4*ceil(b/4) + 4, generate_s yields exactly d bytes, the
\* first d bytes of R || E(R xor [1]) || E(R xor [2]) || ..., with at most
\* ceil(d/16) - 1 block encryptions (none when d <= 16).
C10_SExpander ==
    ret.kind = "S" =>
        LET ciph == CiphNew(arg.key)
            blocks == CHOOSE c \in 0..ret.d : 16 * c >= ret.d /\ 16 * (c - 1) < ret.d
        IN  /\ ret.d % 4 = 0
            /\ ret.d - 4 >= arg.b
            /\ ret.d - 4 < arg.b + 4
            /\ Len(ret.s) = ret.d
            /\ \A k \in 1..ret.d : ret.s[k] = SRefByte(ciph, arg.r, k)
            /\ ret.encryptions <= blocks - 1
            /\ (ret.d <= 16) => (ret.encryptions = 0)

\* an S of 36 bytes, which takes two block encryptions
C10_Witness ==
    /\ ret.kind = "S"
    /\ ret.d = 36
    /\ ret.encryptions = 2
    /\ Len(ret.s) = 36

----------------------------------------------------------------------------
(* Specification of calculate_b as a pure function *)

\* r^e <= t, without forming r^e
RECURSIVE PowLE(_, _, _)
PowLE(r, e, t) ==
    IF e = 0 THEN 1 <= t
    ELSE IF t < r THEN FALSE
    ELSE PowLE(r, e - 1, t \div r)

BRadixes == (2..MaxBRadix) \cup {1000, 1024, 4096, 32768, 65535, 65536}

InitB ==
    /\ EngineIdle
    /\ arg \in {a \in [fn : {"calculate_b"}, radix : BRadixes, v : 0..MaxV] :
                    PowLE(a.radix, a.v, 2147483647)}
    /\ ret = Pending

CallCalculateB ==
    /\ arg.fn = "calculate_b"
    /\ ret = Pending
    /\ LET rx == FromU32(arg.radix)
       IN  ret' = [kind |-> "B", rx |-> rx, b |-> CalculateB(rx, arg.v)]
    /\ UNCHANGED <<engine, pc, call, result, arg>>

NextB == CallCalculateB

SpecB == InitB /\ [][NextB]_vars

\* 256^b >= x for x < 2^31
Pow256GE(b, x) == b >= 4 \/ Pow(256, b) >= x

----------------------------------------------------------------------------
(* usize lengths as two 16-bit limbs (the same layout as the u64 above) *)

UsizeLt(a, b) == a.hi < b.hi \/ (a.hi = b.hi /\ a.lo < b.lo)

\* u32::MAX as usize
MAX_NS_LEN == [hi |-> 65535, lo |-> 65535]

\* a check_ns_length that rejects the minimum length itself
CheckNsLengthStrict(rx, ns_len) ==
    LET min_len == U64From(rx.min_len)
        max_len == MAX_NS_LEN
    IN  IF ~UsizeLt(min_len, ns_len)
        THEN [kind |-> "TooShort", ns_len |-> ns_len, min_len |-> min_len]
        ELSE IF UsizeLt(max_len, ns_len)
        THEN [kind |-> "TooLong", ns_len |-> ns_len, max_len |-> max_len]
        ELSE [kind |-> "Ok"]

CheckNsLength(rx, ns_len) ==
    LET min_len == U64From(rx.min_len)
        max_len == MAX_NS_LEN
    IN  IF UsizeLt(ns_len, min_len)
        THEN [kind |-> "TooShort", ns_len |-> ns_len, min_len |-> min_len]
        ELSE IF UsizeLt(max_len, ns_len)
        THEN [kind |-> "TooLong", ns_len |-> ns_len, max_len |-> max_len]
        ELSE [kind |-> "Ok"]

----------------------------------------------------------------------------
(* The NumeralString / Operations contract (spec.md 3, 4.2).               *)
(* A numeral string is [nums, tail]: the numerals nums followed by tail    *)
(* runs of 65536 zero numerals (tail > 0 only for strings longer than      *)
(* u32::MAX, which are never split).  A half (Operations) is a sequence.   *)

NS(nums) == [nums |-> nums, tail |-> 0]

IsValid(x, radix) == \A i \in 1..Len(x.nums) : x.nums[i] < radix

NumeralCount(x) == [hi |-> x.tail, lo |-> Len(x.nums)]

Split(x) ==
    LET n == Len(x.nums)
        u == n \div 2
    IN  [a |-> SubSeq(x.nums, 1, u), b |-> SubSeq(x.nums, u + 1, n)]

Concat(a, b) == NS(a \o b)

OpsNumeralCount(h) == Len(h)

\* NUM_radix(X)
RECURSIVE NumRadix(_, _)
NumRadix(h, radix) ==
    IF h = <<>> THEN 0
    ELSE NumRadix(SubSeq(h, 1, Len(h) - 1), radix) * radix + h[Len(h)]

\* STR_radix(x, m)
RECURSIVE StrRadix(_, _, _)
StrRadix(x, radix, m) ==
    IF m = 0 THEN <<>>
    ELSE Append(StrRadix(x \div radix, radix, m - 1), x % radix)

\* the big-endian integer of a byte stream, reduced modulo md
RECURSIVE NumBytesMod(_, _)
NumBytesMod(bytes, md) ==
    IF bytes = <<>> THEN 0
    ELSE (NumBytesMod(SubSeq(bytes, 1, Len(bytes) - 1), md) * 256
             + bytes[Len(bytes)]) % md

OpsToBeBytes(h, radix, b) == ToBe(NumRadix(h, radix), b)

AddModExp(h, other, radix, m) ==
    LET md == Pow(radix, m)
    IN  StrRadix(((NumRadix(h, radix) % md) + NumBytesMod(other, md)) % md,
                 radix, m)

SubModExp(h, other, radix, m) ==
    LET md == Pow(radix, m)
    IN  StrRadix(((NumRadix(h, radix) % md) + md - NumBytesMod(other, md)) % md,
                 radix, m)

----------------------------------------------------------------------------
(* FF1 *)

\* Rust's % on i32: the sign of the result is the sign of the dividend
RustRem(a, n) == IF a >= 0 THEN a % n ELSE -((-a) % n)

\* a padding count that forgets the round-counter byte
PadCountNoCounter(t, b) == RustRem(RustRem(-t - b, 16) + 16, 16)

\* (((-(t as i32) - (b as i32) - 1) % 16) + 16) % 16
PadCount(t, b) == RustRem(RustRem(-t - b - 1, 16) + 16, 16)

\* P = [1, 2, 1] || [radix] || [10] || [u mod 256] || [n] || [t]
PrefixP(radix, u, n, t) ==
    <<1, 2, 1>> \o SubSeq(ToBe(radix, 4), 2, 4) \o <<10, u % 256>>
        \o ToBe(n, 4) \o ToBe(t, 4)

\* for _ in 0..k { prf.update(&[0]) }  (offset < BLOCK_LEN always holds;
\* testing it evaluates each update before the next one is formed)
RECURSIVE PrfUpdateZeros(_, _)
PrfUpdateZeros(prf, k) ==
    IF k = 0 THEN prf
    ELSE LET next == PrfUpdate(prf, <<0>>)
         IN  IF next.offset < BLOCK_LEN
             THEN PrfUpdateZeros(next, k - 1)
             ELSE next

\* a to_u32 that is off by one
ToU32PlusOne(rx) == rx.radix + 1

\* the radix handed to the Operations of a round
RoundRadix(rx) == ToU32(rx)

\* FF1::new / FF1::new_with_faistel_rounds
FF1New(key, radix, faistel_rounds) ==
    LET rx == FromU32(radix)
    IN  IF rx.kind = "InvalidRadix" THEN rx
        ELSE [kind |-> "FF1", ciph |-> CiphNew(key), radix |-> rx,
              faistel_rounds |-> faistel_rounds]

NoPlain == [kind |-> "None"]

\* the validation at the head of encrypt and decrypt
Validate(x) ==
    IF ~IsValid(x, ToU32(engine.radix))
    THEN [kind |-> "InvalidForRadix", radix |-> ToU32(engine.radix)]
    ELSE CheckNsLength(engine.radix, NumeralCount(x))

\* steps 1-5 and the common PRF prefix of encrypt and decrypt
Locals(op, tweak, x, plain) ==
    LET n == NumeralCount(x).lo
        t == Len(tweak)
        h == Split(x)
        u == OpsNumeralCount(h.a)
        v == OpsNumeralCount(h.b)
        b == CalculateB(engine.radix, v)
        d == CalcD(b)
        p == PrefixP(ToU32(engine.radix), u, n, t)
        pad == PadCount(t, b)
        prf == PrfUpdateZeros(
                   PrfUpdate(PrfUpdate(PrfNew(engine.ciph), p), tweak), pad)
    IN  [kind |-> "Call", op |-> op, tweak |-> tweak, x |-> x, plain |-> plain,
         n |-> n, t |-> t, u |-> u, v |-> v, b |-> b, d |-> d, pad |-> pad,
         prf |-> prf, k |-> 0, i |-> 0, x_a |-> h.a, x_b |-> h.b,
         num_len |-> 0, out_offset |-> 0]

\* the head of encrypt and decrypt: is_valid and check_ns_length, with
\* their early returns
Begin(op, tweak, x, plain) ==
    /\ pc = "idle"
    /\ engine.kind = "FF1"
    /\ LET chk == Validate(x)
       IN  IF chk.kind # "Ok"
           THEN /\ result' = [kind |-> "Err", op |-> op, tweak |-> tweak,
                              x |-> x, plain |-> plain, err |-> chk]
                /\ UNCHANGED <<pc, call>>
           ELSE /\ call' = [kind |-> "Args", op |-> op, tweak |-> tweak,
                            x |-> x, plain |-> plain]
                /\ pc' = op
                /\ result' = NoResult
    /\ UNCHANGED <<engine, arg, ret>>

\* the straight-line code between the validation and the round loop
Setup ==
    /\ pc \in {"enc", "dec"}
    /\ call.kind = "Args"
    /\ call' = Locals(call.op, call.tweak, call.x, call.plain)
    /\ UNCHANGED <<engine, pc, result, arg, ret>>

\* the body of one iteration of the round loop; src is the half that is fed
\* to the PRF and dst the half that is replaced
Round(i, src, dst) ==
    LET radix == RoundRadix(engine.radix)
        bytes == OpsToBeBytes(src, radix, call.b)
        prf == PrfUpdate(PrfUpdate(call.prf, <<i>>), bytes)
        r == PrfOutput(prf)
    IN  IF r.kind = "Panic"
        THEN /\ result' = [kind |-> "Panic", op |-> call.op,
                           tweak |-> call.tweak, x |-> call.x,
                           plain |-> call.plain, err |-> r]
             /\ pc' = "idle"
             /\ call' = NoCall
        ELSE LET s == GenerateS(engine.ciph, r.block, call.d).s
                 m == IF i % 2 = 0 THEN call.u ELSE call.v
                 x_c == IF call.op = "enc"
                        THEN AddModExp(dst, s, radix, m)
                        ELSE SubModExp(dst, s, radix, m)
             IN  /\ call' = [call EXCEPT
                               !.k = call.k + 1, !.i = i,
                               !.x_a = IF call.op = "enc" THEN src ELSE x_c,
                               !.x_b = IF call.op = "enc" THEN x_c ELSE src,
                               !.num_len = Len(bytes),
                               !.out_offset = prf.offset]
                 /\ UNCHANGED <<pc, result>>

\* an encrypt loop that feeds x_a to the PRF and adds to x_b
EncryptRoundWrongHalf ==
    /\ pc = "enc"
    /\ call.kind = "Call"
    /\ call.k < engine.faistel_rounds
    /\ Round(call.k, call.x_a, call.x_b)
    /\ UNCHANGED <<engine, arg, ret>>

\* for i in 0..self.faistel_rounds { ... } of encrypt
EncryptRound ==
    /\ pc = "enc"
    /\ call.kind = "Call"
    /\ call.k < engine.faistel_rounds
    /\ Round(call.k, call.x_b, call.x_a)
    /\ UNCHANGED <<engine, arg, ret>>

\* a decrypt loop that forgets to reverse the round counter
DecryptRoundForward ==
    /\ pc = "dec"
    /\ call.kind = "Call"
    /\ call.k < engine.faistel_rounds
    /\ Round(call.k, call.x_a, call.x_b)
    /\ UNCHANGED <<engine, arg, ret>>

\* for i in 0..self.faistel_rounds { let i = faistel_rounds - 1 - i; ... }
DecryptRound ==
    /\ pc = "dec"
    /\ call.kind = "Call"
    /\ call.k < engine.faistel_rounds
    /\ Round(engine.faistel_rounds - 1 - call.k, call.x_a, call.x_b)
    /\ UNCHANGED <<engine, arg, ret>>

\* Ok(NS::concat(x_a, x_b))
End ==
    /\ pc \in {"enc", "dec"}
    /\ call.kind = "Call"
    /\ call.k = engine.faistel_rounds
    /\ result' = [kind |-> "Ok", op |-> call.op, tweak |-> call.tweak,
                  x |-> call.x, plain |-> call.plain,
                  ns |-> Concat(call.x_a, call.x_b)]
    /\ pc' = "idle"
    /\ call' = NoCall
    /\ UNCHANGED <<engine, arg, ret>>

----------------------------------------------------------------------------
(* The callers' inputs *)

EngineRadixes == {10, 100, 1024}
BadRadixes == {1, 65537}
RoundCounts == 0..MaxRounds
\* the round count of FF1::new
DEFAULT_ROUNDS == 10

TweakLens == {0, 3, 16}
Tweak(len) == Pattern(5, len)

\* a patterned numeral string of n numerals below radix
Sample(radix, n, seed) ==
    Bytes([i \in 1..n |-> (seed * 7919 + i * i * 31 + i * seed * 5) % radix], n)

Lens(rx) == (rx.min_len - 1)..(rx.min_len + MaxExtraLen)

\* valid strings of every length, strings with a numeral equal to the
\* radix, and strings of 2^32 + 2 numerals
Inputs(rx, nsamples) ==
    LET r == rx.radix
    IN  {NS(Sample(r, n, sd)) : n \in Lens(rx), sd \in 1..nsamples}
        \cup {NS(Bytes([i \in 1..n |-> r - 1], n)) : n \in Lens(rx)}
        \cup {NS(Bytes([i \in 1..n |-> IF i = n THEN r ELSE 0], n)) :
                  n \in Lens(rx)}
        \cup {[nums |-> <<0, z>>, tail |-> 65536] : z \in {0, r}}

\* the caller constructs its engine
Construct(keys, radixes, rounds) ==
    /\ pc = "idle"
    /\ engine = NoEngine
    /\ \E key \in keys, radix \in radixes, r \in rounds :
           LET e == FF1New(key, radix, r)
           IN  IF e.kind = "FF1"
               THEN engine' = e /\ result' = NoResult
               ELSE result' = [kind |-> "Err", op |-> "new", err |-> e]
                    /\ UNCHANGED engine
    /\ UNCHANGED <<pc, call, arg, ret>>

New == Construct(Keys, EngineRadixes \cup BadRadixes, {DEFAULT_ROUNDS})

NewWithFaistelRounds ==
    Construct(Keys, EngineRadixes \cup BadRadixes, RoundCounts)

Encrypt(tweaks, nsamples) ==
    /\ engine.kind = "FF1"
    /\ \E len \in tweaks, x \in Inputs(engine.radix, nsamples) :
           Begin("enc", Tweak(len), x, NoPlain)

Decrypt(tweaks, nsamples) ==
    /\ engine.kind = "FF1"
    /\ \E len \in tweaks, x \in Inputs(engine.radix, nsamples) :
           Begin("dec", Tweak(len), x, NoPlain)

\* decrypt, with the same tweak, what the last encrypt returned
DecryptLast ==
    /\ result.kind = "Ok"
    /\ result.op = "enc"
    /\ Begin("dec", result.tweak, result.ns,
             [kind |-> "Some", x |-> result.x])

Init ==
    /\ EngineIdle
    /\ arg = [fn |-> "ff1"]
    /\ ret = Pending

Next ==
    \/ New
    \/ NewWithFaistelRounds
    \/ Encrypt(TweakLens, NumSamples)
    \/ Decrypt(TweakLens, NumSamples)
    \/ DecryptLast
    \/ Setup
    \/ EncryptRound
    \/ DecryptRound
    \/ End

Spec == Init /\ [][Next]_vars

\* The same engine under every tweak length in 0..MaxTweakLen (one key, one
\* and two rounds, one patterned string per length, one call per engine).
NextAlign ==
    \/ Construct({1}, EngineRadixes, {1, 2})
    \/ (result = NoResult /\ Encrypt(0..MaxTweakLen, 1))
    \/ (result = NoResult /\ Decrypt(0..MaxTweakLen, 1))
    \/ Setup
    \/ EncryptRound
    \/ DecryptRound
    \/ End

SpecAlign == Init /\ [][NextAlign]_vars

\* C1: decrypt(tweak, encrypt(tweak, x)) = x for every engine (any round
\* count, even or odd, including 0), tweak and valid x of length
\* n >= min_len (n even or odd).
C1_RoundTrip ==
    (result.kind # "None" /\ result.op = "dec" /\ result.plain.kind = "Some")
        => (result.kind = "Ok" /\ result.ns = result.plain.x)

\* C2: whenever encrypt or decrypt succeeds, the returned numeral string has
\* exactly as many numerals as its input, for every round count and tweak.
C2_LengthPreserved ==
    result.kind = "Ok" => Len(result.ns.nums) = Len(result.x.nums)

\* C3: if x is valid for the radix and encrypt succeeds, every numeral of
\* the result is in [0, radix).
C3_ValidityPreserved ==
    (result.kind = "Ok" /\ result.op = "enc") =>
        \A i \in 1..Len(result.ns.nums) :
            /\ result.ns.nums[i] >= 0
            /\ result.ns.nums[i] < engine.radix.radix

\* an encryption of an odd-length string with the default ten rounds that
\* changed the string
C3_Witness ==
    /\ result.kind = "Ok"
    /\ result.op = "enc"
    /\ engine.faistel_rounds = 10
    /\ Len(result.x.nums) % 2 = 1
    /\ result.ns # result.x

\* the three ways an input of encrypt or decrypt is rejected
C4_Invalid(x) == \E i \in 1..Len(x.nums) : x.nums[i] >= engine.radix.radix
C4_Short(x) == x.tail = 0 /\ Len(x.nums) < engine.radix.min_len
C4_Long(x) == x.tail >= 65536

\* C4: encrypt and decrypt return InvalidForRadix(radix) for an input with
\* a numeral >= radix, TooShort{n, min_len} for a valid input with
\* n < min_len, TooLong{n, 2^32-1} for a valid input with n > 2^32-1, and
\* succeed on every other input; on an error no numeral string is produced
\* and the engine is unchanged.
C4_ErrorOutcomes ==
    [][ engine.kind = "FF1" =>
          /\ engine' = engine
          /\ (pc = "idle" /\ (pc' # "idle" \/ result'.kind = "Err")) =>
                LET x == IF pc' = "idle" THEN result'.x ELSE call'.x
                    n == [hi |-> x.tail, lo |-> Len(x.nums)]
                    failed == pc' = "idle" /\ result'.kind = "Err"
                                  /\ call' = NoCall
                IN  IF C4_Invalid(x)
                    THEN failed /\ result'.err =
                             [kind |-> "InvalidForRadix",
                              radix |-> engine.radix.radix]
                    ELSE IF C4_Short(x)
                    THEN failed /\ result'.err =
                             [kind |-> "TooShort", ns_len |-> n,
                              min_len |-> [hi |-> 0,
                                           lo |-> engine.radix.min_len]]
                    ELSE IF C4_Long(x)
                    THEN failed /\ result'.err =
                             [kind |-> "TooLong", ns_len |-> n,
                              max_len |-> [hi |-> 65535, lo |-> 65535]]
                    ELSE pc' \in {"enc", "dec"} /\ call'.x = x
          /\ (pc # "idle" /\ pc' = "idle") => result'.kind = "Ok"
      ]_vars

\* a string of 2^32 + 2 valid numerals has been rejected
C4_Witness ==
    /\ pc = "idle"
    /\ result.kind = "Err"
    /\ result.op = "enc"
    /\ result.err.kind = "TooLong"
    /\ result.x.tail = 65536

\* C8: in every round of encrypt and decrypt the bytes absorbed by the PRF
\* (16 of P, the tweak, p = (-t-b-1) mod 16 zero bytes, the round counter
\* and the b bytes of to_be_bytes) are a multiple of 16, the offset is 0
\* when output() is called and its assertion never fails.
C8_BlockAligned ==
    /\ result.kind # "Panic"
    /\ call.kind = "Call" =>
          /\ call.pad \in 0..15
          /\ (call.t + call.b + 1 + call.pad) % 16 = 0
          /\ call.prf.offset = (16 + call.t + call.pad) % 16
          /\ \A b \in 0..MaxSB :
                 (16 + call.t + PadCount(call.t, b) + 1 + b) % 16 = 0
          /\ call.k > 0 =>
                 /\ call.num_len = call.b
                 /\ (16 + call.t + call.pad + 1 + call.num_len) % 16 = 0
                 /\ call.out_offset = 0

\* a round of decrypt with a two-block tweak and no zero padding
C8_Witness ==
    /\ pc = "dec"
    /\ call.kind = "Call"
    /\ call.k = 2
    /\ call.t > 16
    /\ call.pad = 0
    /\ call.out_offset = 0

----------------------------------------------------------------------------
(* One encryption step followed by the decryption step of the same counter *)

StepTweakLens == {0, 3}

\* remember the halves (A, B) and the PRF prefix at the head of the
\* encryption round with counter call.k
Mark ==
    /\ pc = "enc"
    /\ call.kind = "Call"
    /\ call.plain.kind = "None"
    /\ call.k < engine.faistel_rounds
    /\ call' = [call EXCEPT !.plain = [kind |-> "Step", i |-> call.k,
                                       a |-> call.x_a, b |-> call.x_b,
                                       prf |-> call.prf]]
    /\ UNCHANGED <<engine, pc, result, arg, ret>>

\* hand the halves the encryption round left to the decrypt loop, at the
\* iteration whose counter faistel_rounds - 1 - k is the remembered one
Undo ==
    /\ pc = "enc"
    /\ call.kind = "Call"
    /\ call.plain.kind = "Step"
    /\ call.k = call.plain.i + 1
    /\ pc' = "dec"
    /\ call' = [call EXCEPT !.op = "dec",
                            !.k = engine.faistel_rounds - 1 - call.plain.i]
    /\ UNCHANGED <<engine, result, arg, ret>>

NextStep ==
    \/ Construct({1}, EngineRadixes, 1..MaxRounds)
    \/ (result = NoResult /\ Encrypt(StepTweakLens, NumSamples))
    \/ Setup
    \/ Mark
    \/ EncryptRound
    \/ Undo
    \/ DecryptRound
    \/ End

SpecStep == Init /\ [][NextStep]_vars

\* C11: for every round counter i and halves (A, B) with |A| = m (m = u if
\* i is even, else v), the encryption step for i followed by the decryption
\* step for i returns exactly (A, B); the decryption step is fed the half B
\* the encryption step left unchanged, under the same PRF prefix (P, tweak,
\* padding) and the same counter byte.
C11_StepInverse ==
    (pc = "dec" /\ call.kind = "Call" /\ call.plain.kind = "Step") =>
        LET i == call.plain.i
            m == IF i % 2 = 0 THEN call.u ELSE call.v
        IN  /\ Len(call.plain.a) = m
            /\ call.prf = call.plain.prf
            /\ call.k = engine.faistel_rounds - 1 - i =>
                   /\ call.i = i
                   /\ call.x_a = call.plain.b
                   /\ Len(call.x_b) = m
            /\ call.k = engine.faistel_rounds - i =>
                   /\ call.i = i
                   /\ call.x_a = call.plain.a
                   /\ call.x_b = call.plain.b

\* the step with an odd counter on the halves of an odd-length string has
\* been undone, and the encryption step had changed the half A
C11_Witness ==
    /\ pc = "dec"
    /\ call.kind = "Call"
    /\ call.plain.kind = "Step"
    /\ call.plain.i = 1
    /\ call.n % 2 = 1
    /\ call.k = engine.faistel_rounds - 1
    /\ call.x_a = call.plain.a
    /\ call.x_b = call.plain.b
    /\ call.u # call.v

\* C12: for every round count and every n, at the head of each encryption
\* round with counter i the half A that is added to has exactly m_i
\* numerals, and at the head of each decryption round with counter i the
\* half B that is subtracted from has exactly m_i numerals (m_i = u if i is
\* even, else v).
C12_HalfLengths ==
    (call.kind = "Call" /\ call.k < engine.faistel_rounds) =>
        LET i == IF pc = "enc" THEN call.k
                 ELSE engine.faistel_rounds - 1 - call.k
            m == IF i % 2 = 0 THEN call.u ELSE call.v
        IN  IF pc = "enc"
            THEN OpsNumeralCount(call.x_a) = m
            ELSE OpsNumeralCount(call.x_b) = m

----------------------------------------------------------------------------
(* Two encryptions under one engine and one tweak *)

\* the valid strings of the length of x that differ from x in one numeral
\* (the next or the previous numeral at one position), and the other
\* patterned strings of that length
Neighbours(x, rx) ==
    LET r == rx.radix
        n == Len(x.nums)
    IN  ({NS([x.nums EXCEPT ![j] = (@ + d) % r]) : j \in 1..n, d \in {1, r - 1}}
         \cup {y \in Inputs(rx, NumSamples) :
                   y.tail = 0 /\ Len(y.nums) = n /\ IsValid(y, r)})
        \ {x}

\* encrypt, under the same tweak, another string of the same length
EncryptNeighbour ==
    /\ result.kind = "Ok"
    /\ result.op = "enc"
    /\ result.plain.kind = "None"
    /\ \E y \in Neighbours(result.x, engine.radix) :
           Begin("enc", result.tweak, y,
                 [kind |-> "First", x |-> result.x, ns |-> result.ns])

NextPair ==
    \/ Construct({1}, EngineRadixes, RoundCounts)
    \/ (result = NoResult /\ Encrypt(StepTweakLens, NumSamples))
    \/ EncryptNeighbour
    \/ Setup
    \/ EncryptRound
    \/ End

SpecPair == Init /\ [][NextPair]_vars

\* C13: for a fixed key, radix, round count (even or odd) and tweak, two
\* distinct valid strings of the same length n >= min_len never encrypt to
\* the same ciphertext, and each ciphertext is a valid string of n numerals.
C13_Injective ==
    (result.kind = "Ok" /\ result.plain.kind = "First") =>
        /\ result.x # result.plain.x
        /\ Len(result.x.nums) = Len(result.plain.x.nums)
        /\ result.ns # result.plain.ns
        /\ Len(result.ns.nums) = Len(result.x.nums)
        /\ Len(result.plain.ns.nums) = Len(result.x.nums)
        /\ IsValid(result.ns, engine.radix.radix)
        /\ IsValid(result.plain.ns, engine.radix.radix)

\* two strings of odd length that differ only in the first numeral of the
\* half B have been encrypted with three rounds
C13_Witness ==
    /\ result.kind = "Ok"
    /\ result.plain.kind = "First"
    /\ engine.faistel_rounds = 3
    /\ LET n == Len(result.x.nums)
           u == n \div 2
       IN  /\ n % 2 = 1
           /\ result.x.nums[u + 1] # result.plain.x.nums[u + 1]
           /\ \A j \in (1..n) \ {u + 1} :
                  result.x.nums[j] = result.plain.x.nums[j]
           /\ result.ns # result.plain.ns

=============================================================================
